---- MODULE Spec2Model ----
(***************************************************************************)
(* Model of the distributed training loop of train.py: N SPMD workers run  *)
(* main(), synchronising at the collectives (gradient communication in     *)
(* booster.backward, all_reduce_mean, dist.barrier in save_checkpoints).   *)
(* Tensors are integers in fixed point: a loss x stands for x / LossDen, a *)
(* parameter p for p / DecayDen.                                           *)
(***************************************************************************)
EXTENDS Integers, Sequences, FiniteSets, TLC

\* ---- bounds of the model ----
NWorkers == 2
MaxAccum == 2
MaxLen == 3
MaxEpochs == 2
MaxSaveInterval == 2
MaxLoss == 2
MaxJobs == 2
MaxCrashes == 1
MaxParam == 2
MaxEmaCalls == 2

\* ---- program constants ----
DecayNum == 9999
DecayDen == 10000
MasterRank == 0

Workers == 0..(NWorkers - 1)

is_master(w) == w = MasterRank

\* a tag that leaves the epoch out
TagOfStep(e, s) == "step-" \o ToString(s)

\* f"epoch-{epoch}-step-{step}"
TagOf(e, s) == "epoch-" \o ToString(e) \o "-step-" \o ToString(s)

FinalTag == "final"

AllTags == {TagOf(e, s) : e \in 0..MaxEpochs, s \in 0..MaxLen} \cup {FinalTag}

\* a file is the set of its contents: {} when absent, {v} when written
NoFile == {}

EmptyDir == [dir |-> FALSE, model |-> NoFile,
             optimizer |-> [w \in Workers |-> NoFile], ema |-> NoFile]

\* sizes of the sequence-parallel group that divide the world size
SpSizes == {s \in 1..NWorkers : NWorkers % s = 0}

\* sequence-parallel peers of w hold shards of the same sample
SeqParallelGroup(w, sp) == {v \in Workers : v \div sp = w \div sp}

\* the sharding group of w is orthogonal to its sequence-parallel group
ShardingGroup(w, sp) == {v \in Workers : v % sp = w % sp}

RECURSIVE SumOver(_, _)
SumOver(f, S) ==
    IF S = {} THEN 0
    ELSE LET v == CHOOSE u \in S : TRUE IN f[v] + SumOver(f, S \ {v})

\* update_ema with the two weights exchanged
update_ema_swapped(ema_p, p, num) == (num * p + (DecayDen - num) * ema_p) \div DecayDen

\* ema_p.mul_(decay).add_(p.data, alpha=1 - decay), decay = num / DecayDen
update_ema(ema_p, p, num) == (num * ema_p + (DecayDen - num) * p) \div DecayDen

\* the default process group of dist.all_reduce and dist.barrier: every worker
DefaultGroup == Workers

\* dist.get_world_size()
world_size == Cardinality(DefaultGroup)

\* all_reduce_mean without the div_ by the world size
all_reduce_sum(bufs) == SumOver(bufs, DefaultGroup)

\* dist.all_reduce(SUM) over the default group, then div_(world_size)
all_reduce_mean(bufs) == SumOver(bufs, DefaultGroup) \div world_size

\* freshly constructed DiT models (live model and EMA model)
FreshModel == 0 * DecayDen
FreshEma == 1 * DecayDen

VARIABLES
    args,        \* the command-line arguments of the running job
    pc,          \* position of each worker in main()
    epoch, step, \* loop indices of each worker
    total_loss,  \* the loss accumulator tensor of each worker
    grad,        \* micro-batches accumulated in the gradient since zero_grad
    param,       \* live model parameters
    opt,         \* optimizer state shard (number of updates folded in)
    sched,       \* lr_scheduler position
    ema,         \* EMA shadow model
    decay,       \* decay argument of the worker's last update_ema call
    save_path,   \* tag of the save_checkpoints call in progress
    fs,          \* checkpoint_dir: tag -> files
    writer,      \* SummaryWriter: global_step keys written in this job
    writers,     \* ranks that have written telemetry in this job
    arbuf,       \* tensor each worker contributed to the last all-reduce
    issued,      \* collectives issued by each worker in this job
    sinceStep,   \* micro-batches since the previous optimizer step
    sinceCkpt,   \* optimizer steps since the last checkpoint
    stepped,     \* the current iteration made an optimizer step
    saved,       \* the current iteration called save_checkpoints
    nsteps,      \* opt.step calls in this job
    nema,        \* update_ema calls in the loop in this job
    nreduce,     \* all_reduce_mean calls in this job
    entered,     \* save_checkpoints calls entered
    written,     \* save_checkpoints calls whose local writes are finished
    returned,    \* save_checkpoints calls returned from
    crashedIn,   \* where a worker was in save_checkpoints when it crashed
    inLoss,      \* micro-batches whose loss is in total_loss
    inGrad,      \* micro-batches whose gradient is accumulated
    savedTags,   \* tags of the save_checkpoints calls entered in this job
    job,         \* number of the running job
    crashes      \* crashes so far

vars == <<args, pc, epoch, step, total_loss, grad, param, opt, sched, ema, decay,
          save_path, fs, writer, writers, arbuf, issued,
          sinceStep, sinceCkpt, stepped, saved, nsteps, nema, nreduce,
          entered, written, returned, crashedIn, inLoss, inGrad, savedTags,
          job, crashes>>

A == args.accumulation_steps
L == args.len_dataloader
LossDen == A * NWorkers

\* num_steps_per_epoch = len(dataloader) // args.accumulation_steps
num_steps_per_epoch == L \div A

\* CosineAnnealingLR(opt, args.epochs * len(dataloader) // accumulation_steps)
total_sched_steps == (args.epochs * L) \div A

\* (step + 1) % args.accumulation_steps == 0
ShouldStep(s) == (s + 1) % A = 0

\* ShouldSave with the interval counted in micro-batches instead of steps
ShouldSaveMicro(s) ==
    /\ args.save_interval > 0
    /\ \/ (s + 1) % args.save_interval = 0
       \/ (s + 1) = L

\* args.save_interval > 0 and ((step + 1) % (save_interval * accumulation_steps) == 0
\*                             or (step + 1) == len(dataloader))
ShouldSave(s) ==
    /\ args.save_interval > 0
    /\ \/ (s + 1) % (args.save_interval * A) = 0
       \/ (s + 1) = L

\* GlobalStep with the epoch offset counted in micro-batches
GlobalStepMicro(e, s) == (e * L) + ((s + 1) \div A)

\* global_step = (epoch * num_steps_per_epoch) + (step + 1) // accumulation_steps
GlobalStep(e, s) == (e * num_steps_per_epoch) + ((s + 1) \div A)

\* Fetch with the final save inside the epoch loop: skipped when epochs = 0
RECURSIVE FetchFinalInLoop(_, _, _)
FetchFinalInLoop(a, e, s) ==
    IF e >= a.epochs
    THEN [pc |-> IF a.epochs = 0 THEN "done" ELSE "save_model", epoch |-> e,
          step |-> s, newEpoch |-> FALSE, tag |-> FinalTag]
    ELSE IF s >= a.len_dataloader
    THEN FetchFinalInLoop(a, e + 1, 0)
    ELSE [pc |-> "batch", epoch |-> e, step |-> s, newEpoch |-> (s = 0),
          tag |-> ""]

\* where the loops of main() take a worker that is about to fetch the batch
\* at (e, s): the next epoch when the dataloader is exhausted, the final
\* save when the epochs are
RECURSIVE Fetch(_, _, _)
Fetch(a, e, s) ==
    IF e >= a.epochs
    THEN [pc |-> "save_model", epoch |-> e, step |-> s, newEpoch |-> FALSE,
          tag |-> FinalTag]
    ELSE IF s >= a.len_dataloader
    THEN Fetch(a, e + 1, 0)
    ELSE [pc |-> "batch", epoch |-> e, step |-> s, newEpoch |-> (s = 0),
          tag |-> ""]

\* values of the arguments that stay the same when a job is resubmitted
ArgSets ==
    [accumulation_steps : 1..MaxAccum, epochs : 0..MaxEpochs,
     save_interval : 0..MaxSaveInterval,
     len_dataloader : 0..MaxLen, load_model : {NoFile}, load_optimizer : {NoFile}]

\* checkpoints booster.load_model / booster.load_optimizer can read
ModelTags == {t \in AllTags : fs[t].model # NoFile}
OptimizerTags == {t \in AllTags : \A w \in Workers : fs[t].optimizer[w] # NoFile}

Content(file) == CHOOSE v \in file : TRUE

\* Steps 4 and 8 of main(): the EMA is initialised from the fresh model
\* (update_ema with decay=0) before booster.load_model replaces the weights
StartParam(a, files) ==
    IF a.load_model = NoFile THEN FreshModel
    ELSE Content(files[Content(a.load_model)].model)

StartOpt(a, files, w) ==
    IF a.load_optimizer = NoFile THEN 0
    ELSE Content(files[Content(a.load_optimizer)].optimizer[w])

StartEma == update_ema(FreshEma, FreshModel, 0)

\* a scheduler position restored from the update count of the loaded optimizer
StartSchedResumed(a, files, w) == StartOpt(a, files, w)

\* CosineAnnealingLR is constructed anew (line 160) and no load touches it
StartSched(a, files, w) == 0

\* the state of a job when main() reaches the training loop
JobStart(a, files) ==
    LET f == Fetch(a, 0, 0) IN
    [args |-> a,
     pc |-> [w \in Workers |-> f.pc],
     epoch |-> [w \in Workers |-> f.epoch],
     step |-> [w \in Workers |-> f.step],
     save_path |-> [w \in Workers |-> f.tag],
     total_loss |-> [w \in Workers |-> 0],
     grad |-> [w \in Workers |-> 0],
     inLoss |-> [w \in Workers |-> {}],
     inGrad |-> [w \in Workers |-> {}],
     param |-> [w \in Workers |-> StartParam(a, files)],
     opt |-> [w \in Workers |-> StartOpt(a, files, w)],
     sched |-> [w \in Workers |-> StartSched(a, files, w)],
     ema |-> [w \in Workers |-> StartEma],
     decay |-> [w \in Workers |-> 0],
     writer |-> << >>,
     writers |-> {},
     arbuf |-> [w \in Workers |-> 0],
     issued |-> [w \in Workers |-> << >>],
     sinceStep |-> [w \in Workers |-> 0],
     sinceCkpt |-> [w \in Workers |-> 0],
     stepped |-> [w \in Workers |-> FALSE],
     saved |-> [w \in Workers |-> FALSE],
     nsteps |-> [w \in Workers |-> 0],
     nema |-> [w \in Workers |-> 0],
     nreduce |-> [w \in Workers |-> 0],
     entered |-> [w \in Workers |-> IF f.pc = "save_model" THEN 1 ELSE 0],
     savedTags |-> [w \in Workers |-> IF f.pc = "save_model" THEN <<f.tag>> ELSE << >>],
     written |-> [w \in Workers |-> 0],
     returned |-> [w \in Workers |-> 0],
     crashedIn |-> [w \in Workers |-> {}]]

Init ==
    /\ fs = [t \in AllTags |-> EmptyDir]
    /\ job = 1
    /\ crashes = 0
    /\ \E a \in ArgSets :
          LET j == JobStart(a, fs) IN
          /\ args = j.args
          /\ pc = j.pc
          /\ epoch = j.epoch
          /\ step = j.step
          /\ save_path = j.save_path
          /\ total_loss = j.total_loss
          /\ grad = j.grad
          /\ inLoss = j.inLoss
          /\ inGrad = j.inGrad
          /\ param = j.param
          /\ opt = j.opt
          /\ sched = j.sched
          /\ ema = j.ema
          /\ decay = j.decay
          /\ writer = j.writer
          /\ writers = j.writers
          /\ arbuf = j.arbuf
          /\ issued = j.issued
          /\ sinceStep = j.sinceStep
          /\ sinceCkpt = j.sinceCkpt
          /\ stepped = j.stepped
          /\ saved = j.saved
          /\ nsteps = j.nsteps
          /\ nema = j.nema
          /\ nreduce = j.nreduce
          /\ entered = j.entered
          /\ savedTags = j.savedTags
          /\ written = j.written
          /\ returned = j.returned
          /\ crashedIn = j.crashedIn

\* lines 190-210: forward, loss / accumulation_steps, total_loss.add_, and
\* booster.backward, which blocks in the gradient communication
Forward(w) ==
    /\ pc[w] = "batch"
    /\ \E l \in 1..MaxLoss :
          total_loss' = [total_loss EXCEPT ![w] = @ + ((l * LossDen) \div A)]
    /\ inLoss' = [inLoss EXCEPT ![w] = @ \cup {<<epoch[w], step[w]>>}]
    /\ pc' = [pc EXCEPT ![w] = "backward"]
    /\ issued' = [issued EXCEPT ![w] = Append(@, "backward")]
    /\ sinceStep' = [sinceStep EXCEPT ![w] = @ + 1]
    /\ stepped' = [stepped EXCEPT ![w] = FALSE]
    /\ saved' = [saved EXCEPT ![w] = FALSE]
    /\ UNCHANGED <<args, epoch, step, grad, param, opt, sched, ema, save_path,
                   fs, writer, writers, arbuf, sinceCkpt, nsteps, nema,
                   nreduce, entered, written, returned, crashedIn, job, crashes, decay, inGrad, savedTags>>

\* the gradient communication of booster.backward completes on every worker
GradReduce ==
    /\ \A w \in DefaultGroup : pc[w] = "backward"
    /\ grad' = [w \in Workers |-> grad[w] + 1]
    /\ inGrad' = [w \in Workers |-> inGrad[w] \cup {<<epoch[w], step[w]>>}]
    /\ pc' = [w \in Workers |-> "accum"]
    /\ UNCHANGED <<args, epoch, step, total_loss, param, opt, sched, ema,
                   save_path, fs, writer, writers, arbuf, issued,
                   sinceStep, sinceCkpt, stepped, saved, nsteps, nema, nreduce,
                   entered, written, returned, crashedIn, job, crashes, decay, inLoss, savedTags>>

\* AfterBackward with the step branch guarded by the master test as well
AfterBackwardMaster(w) ==
    /\ pc[w] = "accum"
    /\ IF ShouldStep(step[w]) /\ is_master(w)
       THEN LET p == param[w] + grad[w] * DecayDen IN
            /\ param' = [param EXCEPT ![w] = p]
            /\ opt' = [opt EXCEPT ![w] = @ + 1]
            /\ grad' = [grad EXCEPT ![w] = 0]
            /\ inGrad' = [inGrad EXCEPT ![w] = {}]
            /\ sched' = [sched EXCEPT ![w] = @ + 1]
            /\ ema' = [ema EXCEPT ![w] = update_ema(@, p, DecayNum)]
            /\ decay' = [decay EXCEPT ![w] = DecayNum]
            /\ arbuf' = [arbuf EXCEPT ![w] = total_loss[w]]
            /\ pc' = [pc EXCEPT ![w] = "allreduce"]
            /\ issued' = [issued EXCEPT ![w] = Append(@, "all_reduce")]
            /\ sinceStep' = [sinceStep EXCEPT ![w] = 0]
            /\ sinceCkpt' = [sinceCkpt EXCEPT ![w] = @ + 1]
            /\ stepped' = [stepped EXCEPT ![w] = TRUE]
            /\ nsteps' = [nsteps EXCEPT ![w] = @ + 1]
            /\ nema' = [nema EXCEPT ![w] = @ + 1]
            /\ nreduce' = [nreduce EXCEPT ![w] = @ + 1]
       ELSE /\ pc' = [pc EXCEPT ![w] = "savecheck"]
            /\ UNCHANGED <<param, opt, grad, inGrad, sched, ema, decay, arbuf, issued,
                           sinceStep, sinceCkpt, stepped, nsteps, nema, nreduce>>
    /\ UNCHANGED <<args, epoch, step, total_loss, save_path, fs, writer, writers, saved, entered, written, returned, crashedIn, job,
                   crashes, inLoss, savedTags>>

\* lines 212-218: opt.step, zero_grad, lr_scheduler.step, update_ema, and the
\* call of all_reduce_mean, which blocks in dist.all_reduce
AfterBackward(w) ==
    /\ pc[w] = "accum"
    /\ IF ShouldStep(step[w])
       THEN LET p == param[w] + grad[w] * DecayDen IN
            /\ param' = [param EXCEPT ![w] = p]
            /\ opt' = [opt EXCEPT ![w] = @ + 1]
            /\ grad' = [grad EXCEPT ![w] = 0]
            /\ inGrad' = [inGrad EXCEPT ![w] = {}]
            /\ sched' = [sched EXCEPT ![w] = @ + 1]
            /\ ema' = [ema EXCEPT ![w] = update_ema(@, p, DecayNum)]
            /\ decay' = [decay EXCEPT ![w] = DecayNum]
            /\ arbuf' = [arbuf EXCEPT ![w] = total_loss[w]]
            /\ pc' = [pc EXCEPT ![w] = "allreduce"]
            /\ issued' = [issued EXCEPT ![w] = Append(@, "all_reduce")]
            /\ sinceStep' = [sinceStep EXCEPT ![w] = 0]
            /\ sinceCkpt' = [sinceCkpt EXCEPT ![w] = @ + 1]
            /\ stepped' = [stepped EXCEPT ![w] = TRUE]
            /\ nsteps' = [nsteps EXCEPT ![w] = @ + 1]
            /\ nema' = [nema EXCEPT ![w] = @ + 1]
            /\ nreduce' = [nreduce EXCEPT ![w] = @ + 1]
       ELSE /\ pc' = [pc EXCEPT ![w] = "savecheck"]
            /\ UNCHANGED <<param, opt, grad, inGrad, sched, ema, decay, arbuf, issued,
                           sinceStep, sinceCkpt, stepped, nsteps, nema, nreduce>>
    /\ UNCHANGED <<args, epoch, step, total_loss, save_path, fs, writer, writers, saved, entered, written, returned, crashedIn, job,
                   crashes, inLoss, savedTags>>

\* dist.all_reduce completes: every worker's tensor holds the mean
AllReduce ==
    /\ \A w \in DefaultGroup : pc[w] = "allreduce"
    /\ total_loss' = [w \in Workers |-> all_reduce_mean(arbuf)]
    /\ pc' = [w \in Workers |-> "report"]
    /\ UNCHANGED <<args, epoch, step, grad, param, opt, sched, ema, save_path,
                   fs, writer, writers, arbuf, issued, sinceStep,
                   sinceCkpt, stepped, saved, nsteps, nema, nreduce, entered,
                   written, returned, crashedIn, job, crashes, decay, inLoss, inGrad, savedTags>>

\* lines 219-230: the master writes the loss, then total_loss.zero_()
Report(w) ==
    /\ pc[w] = "report"
    /\ IF is_master(w)
       THEN /\ writer' = Append(writer, GlobalStep(epoch[w], step[w]))
            /\ writers' = writers \cup {w}
       ELSE UNCHANGED <<writer, writers>>
    /\ total_loss' = [total_loss EXCEPT ![w] = 0]
    /\ inLoss' = [inLoss EXCEPT ![w] = {}]
    /\ arbuf' = [arbuf EXCEPT ![w] = 0]
    /\ pc' = [pc EXCEPT ![w] = "savecheck"]
    /\ UNCHANGED <<args, epoch, step, grad, param, opt, sched, ema, save_path,
                   fs, issued, sinceStep, sinceCkpt, stepped, saved,
                   nsteps, nema, nreduce, entered, written, returned, crashedIn,
                   job, crashes, decay, inGrad, savedTags>>

\* the worker leaves iteration (epoch, step) and fetches the next batch;
\* total_loss is re-created at the start of an epoch (line 188)
NextIteration(w) ==
    LET f == Fetch(args, epoch[w], step[w] + 1) IN
    [pc |-> f.pc, epoch |-> f.epoch, step |-> f.step, tag |-> f.tag,
     total_loss |-> IF f.newEpoch THEN 0 ELSE total_loss[w],
     inLoss |-> IF f.newEpoch THEN {} ELSE inLoss[w],
     entered |-> IF f.pc = "save_model" THEN entered[w] + 1 ELSE entered[w],
     savedTags |-> IF f.pc = "save_model" THEN Append(savedTags[w], f.tag)
                   ELSE savedTags[w]]

\* lines 233-243: the decision to checkpoint at the end of an iteration
SaveCheck(w) ==
    /\ pc[w] = "savecheck"
    /\ IF ShouldSave(step[w])
       THEN /\ pc' = [pc EXCEPT ![w] = "save_model"]
            /\ save_path' = [save_path EXCEPT ![w] = TagOf(epoch[w], step[w])]
            /\ entered' = [entered EXCEPT ![w] = @ + 1]
            /\ savedTags' = [savedTags EXCEPT ![w] = Append(@, TagOf(epoch[w], step[w]))]
            /\ saved' = [saved EXCEPT ![w] = TRUE]
            /\ sinceCkpt' = [sinceCkpt EXCEPT ![w] = 0]
            /\ UNCHANGED <<epoch, step, total_loss, inLoss>>
       ELSE LET n == NextIteration(w) IN
            /\ pc' = [pc EXCEPT ![w] = n.pc]
            /\ epoch' = [epoch EXCEPT ![w] = n.epoch]
            /\ step' = [step EXCEPT ![w] = n.step]
            /\ save_path' = [save_path EXCEPT ![w] = n.tag]
            /\ total_loss' = [total_loss EXCEPT ![w] = n.total_loss]
            /\ inLoss' = [inLoss EXCEPT ![w] = n.inLoss]
            /\ entered' = [entered EXCEPT ![w] = n.entered]
            /\ savedTags' = [savedTags EXCEPT ![w] = n.savedTags]
            /\ UNCHANGED <<saved, sinceCkpt>>
    /\ UNCHANGED <<args, grad, param, opt, sched, ema, fs, writer, writers, arbuf, issued, sinceStep, stepped, nsteps, nema,
                   nreduce, written, returned, crashedIn, job, crashes, decay, inGrad>>

\* lines 76-77: os.makedirs and booster.save_model(shard=False)
SaveModel(w) ==
    /\ pc[w] = "save_model"
    /\ fs' = [fs EXCEPT ![save_path[w]].dir = TRUE,
                        ![save_path[w]].model = {param[w]}]
    /\ pc' = [pc EXCEPT ![w] = "save_optimizer"]
    /\ UNCHANGED <<args, epoch, step, total_loss, grad, param, opt, sched, ema,
                   save_path, writer, writers, arbuf, issued, sinceStep,
                   sinceCkpt, stepped, saved, nsteps, nema, nreduce, entered,
                   written, returned, crashedIn, job, crashes, decay, inLoss, inGrad, savedTags>>

\* line 78: booster.save_optimizer(shard=True), the worker's own shard
SaveOptimizer(w) ==
    /\ pc[w] = "save_optimizer"
    /\ fs' = [fs EXCEPT ![save_path[w]].optimizer[w] = {opt[w]}]
    /\ pc' = [pc EXCEPT ![w] = "save_ema"]
    /\ UNCHANGED <<args, epoch, step, total_loss, grad, param, opt, sched, ema,
                   save_path, writer, writers, arbuf, issued, sinceStep,
                   sinceCkpt, stepped, saved, nsteps, nema, nreduce, entered,
                   written, returned, crashedIn, job, crashes, decay, inLoss, inGrad, savedTags>>

\* lines 79-84: the master writes ema.pt; the worker calls dist.barrier
SaveEma(w) ==
    /\ pc[w] = "save_ema"
    /\ IF is_master(w)
       THEN fs' = [fs EXCEPT ![save_path[w]].ema = {ema[w]}]
       ELSE UNCHANGED fs
    /\ pc' = [pc EXCEPT ![w] = "barrier"]
    /\ written' = [written EXCEPT ![w] = @ + 1]
    /\ issued' = [issued EXCEPT ![w] = Append(@, "barrier")]
    /\ UNCHANGED <<args, epoch, step, total_loss, grad, param, opt, sched, ema,
                   save_path, writer, writers, arbuf, sinceStep,
                   sinceCkpt, stepped, saved, nsteps, nema, nreduce, entered,
                   returned, crashedIn, job, crashes, decay, inLoss, inGrad, savedTags>>

\* where a worker continues when save_checkpoints returns
AfterSave(w) ==
    IF save_path[w] = FinalTag
    THEN [pc |-> "done", epoch |-> epoch[w], step |-> step[w], tag |-> FinalTag,
          total_loss |-> total_loss[w], inLoss |-> inLoss[w],
          entered |-> entered[w], savedTags |-> savedTags[w]]
    ELSE NextIteration(w)

\* Barrier that lets a worker through without waiting for the others
BarrierNoWait ==
    \E u \in DefaultGroup :
        /\ pc[u] = "barrier"
        /\ pc' = [pc EXCEPT ![u] = AfterSave(u).pc]
        /\ epoch' = [epoch EXCEPT ![u] = AfterSave(u).epoch]
        /\ step' = [step EXCEPT ![u] = AfterSave(u).step]
        /\ save_path' = [save_path EXCEPT ![u] = AfterSave(u).tag]
        /\ total_loss' = [total_loss EXCEPT ![u] = AfterSave(u).total_loss]
        /\ inLoss' = [inLoss EXCEPT ![u] = AfterSave(u).inLoss]
        /\ entered' = [entered EXCEPT ![u] = AfterSave(u).entered]
        /\ savedTags' = [savedTags EXCEPT ![u] = AfterSave(u).savedTags]
        /\ returned' = [returned EXCEPT ![u] = @ + 1]
        /\ UNCHANGED <<args, grad, param, opt, sched, ema, fs, writer, writers,
                       arbuf, issued, sinceStep, sinceCkpt, stepped, saved,
                       nsteps, nema, nreduce, written, crashedIn, job, crashes, decay, inGrad>>

\* dist.barrier is passed when every worker of the group has called it
Barrier ==
    /\ \A w \in DefaultGroup : pc[w] = "barrier"
    /\ pc' = [w \in Workers |-> AfterSave(w).pc]
    /\ epoch' = [w \in Workers |-> AfterSave(w).epoch]
    /\ step' = [w \in Workers |-> AfterSave(w).step]
    /\ save_path' = [w \in Workers |-> AfterSave(w).tag]
    /\ total_loss' = [w \in Workers |-> AfterSave(w).total_loss]
    /\ inLoss' = [w \in Workers |-> AfterSave(w).inLoss]
    /\ entered' = [w \in Workers |-> AfterSave(w).entered]
    /\ savedTags' = [w \in Workers |-> AfterSave(w).savedTags]
    /\ returned' = [w \in Workers |-> returned[w] + 1]
    /\ UNCHANGED <<args, grad, param, opt, sched, ema, fs, writer, writers, arbuf, issued, sinceStep, sinceCkpt, stepped, saved,
                   nsteps, nema, nreduce, written, crashedIn, job, crashes, decay, inGrad>>

SavePcs == {"save_model", "save_optimizer", "save_ema", "barrier"}

\* a worker dies inside save_checkpoints: a write raises, or the process is
\* killed before the barrier completes
CrashInSave(w) ==
    /\ pc[w] \in SavePcs
    /\ crashes < MaxCrashes
    /\ pc' = [pc EXCEPT ![w] = "crashed"]
    /\ crashedIn' = [crashedIn EXCEPT ![w] = {[tag |-> save_path[w], at |-> pc[w]]}]
    /\ crashes' = crashes + 1
    /\ UNCHANGED <<args, epoch, step, total_loss, grad, param, opt, sched, ema,
                   save_path, fs, writer, writers, arbuf, issued,
                   sinceStep, sinceCkpt, stepped, saved, nsteps, nema, nreduce,
                   entered, written, returned, job, decay, inLoss, inGrad, savedTags>>

JobOver == \A w \in Workers : pc[w] = "done"

\* the operator resubmits the finished job on the same world size, optionally
\* from a checkpoint: --load_model alone, or with --load_optimizer from the
\* same checkpoint
Restart ==
    /\ JobOver
    /\ job < MaxJobs
    /\ job' = job + 1
    /\ UNCHANGED <<fs, crashes>>
    /\ \E lm \in {NoFile} \cup {{t} : t \in ModelTags},
          lo \in {NoFile} \cup {{t} : t \in OptimizerTags} :
          /\ lo \in {NoFile, lm}
          /\ LET j == JobStart([args EXCEPT !.load_model = lm,
                                            !.load_optimizer = lo], fs) IN
             /\ args' = j.args
             /\ pc' = j.pc
             /\ epoch' = j.epoch
             /\ step' = j.step
             /\ save_path' = j.save_path
             /\ total_loss' = j.total_loss
             /\ grad' = j.grad
             /\ inLoss' = j.inLoss
             /\ inGrad' = j.inGrad
             /\ param' = j.param
             /\ opt' = j.opt
             /\ sched' = j.sched
             /\ ema' = j.ema
             /\ decay' = j.decay
             /\ writer' = j.writer
             /\ writers' = j.writers
             /\ arbuf' = j.arbuf
             /\ issued' = j.issued
             /\ sinceStep' = j.sinceStep
             /\ sinceCkpt' = j.sinceCkpt
             /\ stepped' = j.stepped
             /\ saved' = j.saved
             /\ nsteps' = j.nsteps
             /\ nema' = j.nema
             /\ nreduce' = j.nreduce
             /\ entered' = j.entered
             /\ savedTags' = j.savedTags
             /\ written' = j.written
             /\ returned' = j.returned
             /\ crashedIn' = j.crashedIn

Next ==
    \/ \E w \in Workers : Forward(w)
    \/ GradReduce
    \/ \E w \in Workers : AfterBackward(w)
    \/ AllReduce
    \/ \E w \in Workers : Report(w)
    \/ \E w \in Workers : SaveCheck(w)
    \/ \E w \in Workers : SaveModel(w)
    \/ \E w \in Workers : SaveOptimizer(w)
    \/ \E w \in Workers : SaveEma(w)
    \/ Barrier
    \/ \E w \in Workers : CrashInSave(w)
    \/ Restart

Spec == Init /\ [][Next]_vars

TypeOK ==
    /\ pc \in [Workers -> {"batch", "backward", "accum", "allreduce", "report",
                           "savecheck", "save_model", "save_optimizer",
                           "save_ema", "barrier", "done", "crashed"}]
    /\ \A w \in Workers : save_path[w] \in AllTags \cup {""}


\* the steps a worker takes on its own, between collectives
Local(w) ==
    \/ Forward(w)
    \/ AfterBackward(w)
    \/ Report(w)
    \/ SaveCheck(w)
    \/ SaveModel(w)
    \/ SaveOptimizer(w)
    \/ SaveEma(w)

\* every live worker keeps running and a collective completes once every
\* worker has joined it; crashes and resubmissions are not forced
FairSpec ==
    /\ Spec
    /\ \A w \in Workers : WF_vars(Local(w))
    /\ WF_vars(GradReduce)
    /\ WF_vars(AllReduce)
    /\ WF_vars(Barrier)

IsPrefix(s1, s2) == Len(s1) <= Len(s2) /\ SubSeq(s2, 1, Len(s1)) = s1

\* "all files of the checkpoint are present"
Valid(t) ==
    /\ fs[t].dir
    /\ fs[t].model # NoFile
    /\ \A w \in Workers : fs[t].optimizer[w] # NoFile
    /\ fs[t].ema # NoFile

\* no worker of the running job has taken a step yet
JobFresh ==
    \A w \in Workers :
        /\ pc[w] = Fetch(args, 0, 0).pc
        /\ issued[w] = << >>
        /\ epoch[w] = Fetch(args, 0, 0).epoch

\* C1: the optimizer step and exactly one update_ema happen in the iteration
\* in which the count of micro-batches since the previous step reaches
\* accumulation_steps, not earlier, and the count never exceeds it
C1_StepEveryAccumulation ==
    [][\A w \in Workers :
          (pc[w] = "accum" /\ pc'[w] # "accum") =>
              /\ sinceStep[w] <= A
              /\ (nsteps'[w] = nsteps[w] + 1) <=> (sinceStep[w] = A)
              /\ (nema'[w] - nema[w]) = (nsteps'[w] - nsteps[w])
              /\ (nsteps'[w] = nsteps[w] + 1) => sinceStep'[w] = 0]_vars

\* C2: a job resumed from a checkpoint starts with the model parameters, the
\* optimizer state and the EMA that were saved in it
C2_RoundTrip ==
    (JobFresh /\ args.load_model # NoFile /\ args.load_optimizer = args.load_model) =>
        LET t == Content(args.load_model) IN
        \A w \in Workers :
            /\ fs[t].model = {param[w]}
            /\ fs[t].optimizer[w] = {opt[w]}
            /\ fs[t].ema = {ema[w]}

\* C3: after a crash inside save_checkpoints the directory of that tag does
\* not pass the validity check
C3_Atomic ==
    \A w \in Workers : \A c \in crashedIn[w] : ~Valid(c.tag)

C5_BarrierLast ==
    \A w \in Workers : \A v \in Workers : returned[w] <= written[v]

C5_Witness ==
    \E w \in Workers : returned[w] >= 2 /\ pc[w] = "batch"

\* worker v is at a later micro-batch than worker w
Later(v, w) ==
    \/ epoch[v] > epoch[w]
    \/ epoch[v] = epoch[w] /\ step[v] > step[w]

\* C6: the workers issue the same sequence of collectives, and no worker
\* waits in the checkpoint barrier while another waits in a different
\* collective or has moved on to a later micro-batch
C6_SameCollectives ==
    \A w \in Workers : \A v \in Workers :
        /\ IsPrefix(issued[w], issued[v]) \/ IsPrefix(issued[v], issued[w])
        /\ pc[w] = "barrier" =>
              /\ pc[v] \notin {"backward", "allreduce"}
              /\ Len(issued[v]) <= Len(issued[w])
              /\ ~Later(v, w)

C6_Witness ==
    \E w \in Workers : \E v \in Workers :
        /\ pc[w] = "barrier" /\ pc[v] = "report"
        /\ save_path[w] # FinalTag

\* C7: the loss is all-reduced once per optimizer step and in no other
\* iteration, and the value reported is the mean over the reducing workers
\* of their accumulated losses
C7_LossReducedOncePerStep ==
    \A w \in Workers :
        /\ nreduce[w] = nsteps[w]
        /\ (\A v \in Workers : pc[v] = "report") =>
               total_loss[w] * Cardinality(DefaultGroup) = SumOver(arbuf, DefaultGroup)

C7_Witness ==
    /\ \A v \in Workers : pc[v] = "report"
    /\ \E w \in Workers : \E v \in Workers : arbuf[w] # arbuf[v]
    /\ A > 1
    /\ \E w \in Workers : nsteps[w] >= 2

\* C8: the reported loss is the mean over the sharding group of the worker,
\* without its sequence-parallel peers
C8_ShardingGroupMean ==
    \A sp \in SpSizes : \A w \in Workers :
        (\A v \in Workers : pc[v] = "report") =>
            total_loss[w] * Cardinality(ShardingGroup(w, sp))
                = SumOver(arbuf, ShardingGroup(w, sp))

\* C9: with save_interval > 0 a checkpoint is taken exactly when the optimizer
\* steps since the last checkpoint reach save_interval, and at the last
\* micro-batch of an epoch; the steps between checkpoints never exceed
\* save_interval; a periodic checkpoint follows an optimizer step of the same
\* iteration; an iteration takes at most one checkpoint
C9_SaveInterval ==
    \A w \in Workers :
        args.save_interval > 0 =>
            /\ sinceCkpt[w] <= args.save_interval
            /\ pc[w] = "savecheck" =>
                  (ShouldSave(step[w]) <=>
                      \/ stepped[w] /\ sinceCkpt[w] = args.save_interval
                      \/ step[w] + 1 = L)
            /\ (pc[w] \in SavePcs /\ save_path[w] # FinalTag /\ step[w] + 1 # L)
                  => (saved[w] /\ stepped[w])
            /\ entered[w] <= epoch[w] * L + step[w] + 1

C9_Witness ==
    \E w \in Workers :
        /\ pc[w] = "save_model" /\ save_path[w] # FinalTag /\ step[w] + 1 < L
        /\ A > 1 /\ epoch[w] > 0

\* C10: the master alone writes one scalar per optimizer step, keyed
\* 1, 2, 3, ... through the whole job
C10_GlobalStepKeys ==
    /\ writers \subseteq {MasterRank}
    /\ \A i \in 1..Len(writer) : writer[i] = i
    /\ Len(writer) = nsteps[MasterRank]
                       - (IF pc[MasterRank] \in {"allreduce", "report"} THEN 1 ELSE 0)

C10_Witness ==
    /\ Len(writer) >= 2
    /\ epoch[MasterRank] >= 1
    /\ L % A # 0
    /\ pc[MasterRank] = "savecheck" /\ stepped[MasterRank]


\* C11: a job started from a checkpoint begins at epoch 0, step 0, with no
\* global step written and the learning-rate schedule at its start, whatever
\* the checkpoint holds; a checkpoint holds the model, the optimizer shards
\* and the EMA only
C11_ResumeFromZero ==
    /\ \A t \in AllTags : DOMAIN fs[t] = {"dir", "model", "optimizer", "ema"}
    /\ args.load_model # NoFile =>
          \A w \in Workers :
              /\ sched[w] = nsteps[w]
              /\ JobFresh => (sched[w] = 0 /\ writer = << >>)
              /\ (JobFresh /\ pc[w] = "batch") => (epoch[w] = 0 /\ step[w] = 0)

C11_Witness ==
    /\ JobFresh
    /\ args.load_model # NoFile
    /\ args.load_optimizer = args.load_model
    /\ Content(args.load_model) = TagOf(1, 1)
    /\ \A w \in Workers : pc[w] = "batch" /\ opt[w] >= 2


\* ---- update_ema on its own: any two models, any of the three decays ----

ParamVals == {k * DecayDen : k \in 0..MaxParam}

Decays == {0, DecayNum, DecayDen}

EmaArgs == {a \in ArgSets : a.epochs = 0 /\ a.len_dataloader = 0
                             /\ a.save_interval = 0 /\ a.accumulation_steps = 1}

EmaInit ==
    /\ fs = [t \in AllTags |-> EmptyDir]
    /\ job = 1
    /\ crashes = 0
    /\ \E a \in EmaArgs :
          LET j == JobStart(a, fs) IN
          /\ args = j.args
          /\ pc = j.pc
          /\ epoch = j.epoch
          /\ step = j.step
          /\ save_path = j.save_path
          /\ total_loss = j.total_loss
          /\ grad = j.grad
          /\ inLoss = j.inLoss
          /\ inGrad = j.inGrad
          /\ opt = j.opt
          /\ sched = j.sched
          /\ decay = j.decay
          /\ writer = j.writer
          /\ writers = j.writers
          /\ arbuf = j.arbuf
          /\ issued = j.issued
          /\ sinceStep = j.sinceStep
          /\ sinceCkpt = j.sinceCkpt
          /\ stepped = j.stepped
          /\ saved = j.saved
          /\ nsteps = j.nsteps
          /\ nema = j.nema
          /\ nreduce = j.nreduce
          /\ entered = j.entered
          /\ savedTags = j.savedTags
          /\ written = j.written
          /\ returned = j.returned
          /\ crashedIn = j.crashedIn
    /\ param \in [Workers -> ParamVals]
    /\ ema \in [Workers -> ParamVals]

\* update_ema(ema, model, decay) called on worker w
EmaCall(w) ==
    /\ nema[w] < MaxEmaCalls
    /\ \E num \in Decays :
          /\ ema' = [ema EXCEPT ![w] = update_ema(@, param[w], num)]
          /\ decay' = [decay EXCEPT ![w] = num]
    /\ nema' = [nema EXCEPT ![w] = @ + 1]
    /\ UNCHANGED <<args, pc, epoch, step, total_loss, grad, param, opt, sched,
                   save_path, fs, writer, writers, arbuf, issued, sinceStep,
                   sinceCkpt, stepped, saved, nsteps, nreduce, entered, written,
                   returned, crashedIn, job, crashes, inLoss, inGrad, savedTags>>

EmaNext == \E w \in Workers : EmaCall(w)

EmaSpec == EmaInit /\ [][EmaNext]_vars

\* C12: update_ema leaves decay*ema + (1-decay)*param in the EMA (to the
\* rounding of one unit): the live model for decay 0, the old EMA for decay 1;
\* it never changes the live model
C12_UpdateEma ==
    [][\A w \in Workers :
          nema'[w] = nema[w] + 1 =>
              /\ param' = param
              /\ decay'[w] = 0 => ema'[w] = param[w]
              /\ decay'[w] = DecayDen => ema'[w] = ema[w]
              /\ DecayDen * ema'[w] <= decay'[w] * ema[w] + (DecayDen - decay'[w]) * param[w]
              /\ decay'[w] * ema[w] + (DecayDen - decay'[w]) * param[w] < DecayDen * (ema'[w] + 1)]_vars

C12_Witness ==
    \E w \in Workers : \E v \in Workers :
        /\ nema[w] = 2 /\ decay[w] = 0 /\ ema[w] = param[w]
        /\ nema[v] = 1 /\ decay[v] = DecayDen /\ ema[v] # param[v]


\* checkpoints taken inside the loop over a whole job
IterSaves == args.epochs * Cardinality({s \in 0..(L - 1) : ShouldSave(s)})

AllDone == \A w \in Workers : pc[w] = "done"

\* what a checkpoint directory holds
Saved(t) == <<fs[t].model, fs[t].optimizer, fs[t].ema>>

\* C13: every worker ends the job with exactly one save_checkpoints to
\* 'final', after the last epoch, for every save_interval and for epochs = 0;
\* with save_interval > 0 'final' holds what the checkpoint of the last
\* micro-batch of the last epoch holds
C13_FinalSave ==
    /\ \A w \in Workers :
          /\ save_path[w] = FinalTag =>
                /\ epoch[w] >= args.epochs
                /\ pc[w] \in SavePcs \cup {"done", "crashed"}
                /\ entered[w] = IterSaves + 1
          /\ pc[w] = "done" =>
                /\ save_path[w] = FinalTag
                /\ returned[w] = entered[w]
                /\ Valid(FinalTag)
                /\ fs[FinalTag].model = {param[w]}
                /\ fs[FinalTag].optimizer[w] = {opt[w]}
                /\ fs[FinalTag].ema = {ema[MasterRank]}
    /\ (AllDone /\ args.save_interval > 0 /\ args.epochs > 0 /\ L > 0) =>
          Saved(FinalTag) = Saved(TagOf(args.epochs - 1, L - 1))

C13_Witness ==
    /\ AllDone
    /\ args.save_interval > 0 /\ args.epochs > 1 /\ L > 1
    /\ \A w \in Workers : nsteps[w] > 1

\* C13, termination: unless a worker crashes, every worker finishes the job
C13_Terminates == <>(crashes > 0 \/ AllDone)


\* C14: at every save_checkpoints call the update_ema calls made since
\* training started equal the optimizer steps applied to the parameters being
\* saved (the update count of the optimizer that produced them)
C14_EmaInStep ==
    \A w \in Workers :
        (pc[w] \in SavePcs /\ args.load_optimizer = args.load_model) =>
            nema[w] = opt[w]


\* C15: the schedule advances once per optimizer step, and a finished job has
\* made as many lr_scheduler.step calls as the schedule was constructed with
C15_ScheduleComplete ==
    \A w \in Workers :
        /\ sched[w] = nsteps[w]
        /\ pc[w] = "done" => sched[w] = total_sched_steps


\* C16: the micro-batches whose loss enters the loss reported for an
\* optimizer step are the micro-batches whose gradients that step applies
C16_LossMatchesGradient ==
    [][\A w \in Workers :
          nsteps'[w] = nsteps[w] + 1 => inLoss[w] = inGrad[w]]_vars


\* C17: within one run no two save_checkpoints calls target the same
\* directory, so no checkpoint of the run is overwritten later in the run
C17_DistinctTags ==
    \A w \in Workers :
        /\ Len(savedTags[w]) = entered[w]
        /\ \A i \in 1..Len(savedTags[w]) : \A k \in 1..Len(savedTags[w]) :
              i # k => savedTags[w][i] # savedTags[w][k]
        /\ pc[w] \in SavePcs => save_path[w] = savedTags[w][Len(savedTags[w])]

C17_Witness ==
    \E w \in Workers :
        /\ pc[w] = "done"
        /\ Len(savedTags[w]) >= 5
        /\ args.epochs > 1

====
